---- MODULE Spec2Model ----
(***************************************************************************)
(* Model of the gentleman Ganeti RAPI client: the non-blocking transport   *)
(* (gentleman/async.py: JsonResponseProtocol, TwistedRapiClient.request,   *)
(* TwistedRapiClient.start) and the blocking transport (gentleman/sync.py: *)
(* RequestsRapiClient._SendRequest).                                       *)
(***************************************************************************)
EXTENDS Integers, Sequences, FiniteSets, TLC

VARIABLES
  req,        \* per in-flight exchange: the Deferreds, the protocol and the DeferredList
  version,    \* TwistedRapiClient.version
  features,   \* TwistedRapiClient.features
  run,        \* the position of the start() generator and what it raised
  blocking,   \* the last exchange of the blocking client and what it returned
  client,     \* the last client constructed: its arguments and what __init__ did
  query,      \* the caller's query dict and what the last call made of it
  call        \* the last call of EvacuateNode: its arguments and what it passed on

vars == <<req, version, features, run, blocking, client, query, call>>

(***************************************************************************)
(* Bounds                                                                  *)
(***************************************************************************)
\* number of request() handles of the caller that can be in flight together
MaxUserReq == 2
\* number of entries of a query dict
MaxEntries == 2
\* number of times prepare_query runs on one dict
MaxCalls == 2

(***************************************************************************)
(* Python / JSON values.  Every value is a record [t, v]; t is the Python  *)
(* type of the value.                                                      *)
(***************************************************************************)
PyNone == [t |-> "NoneType", v |-> <<>>]
PyInt(n) == [t |-> "int", v |-> n]
PyStr(s) == [t |-> "str", v |-> s]
PyList(l) == [t |-> "list", v |-> l]
PyBool(b) == [t |-> "bool", v |-> b]
\* the float tenths / 10
PyFloat(tenths) == [t |-> "float", v |-> tenths]
\* a dict, as the sequence of its <<key, value>> items in iteration order
PyDict(items) == [t |-> "dict", v |-> items]

\* Python's == on the values above (values of different types are unequal)
PyEq(a, b) == a.t = b.t /\ a.v = b.v

\* isinstance(x, (int, long, float)): what the %d conversion accepts
IsNumber(x) == x.t = "int"

(***************************************************************************)
(* json.loads on a body given as a sequence of characters: decimal         *)
(* numbers, string literals, null, and lists and objects of these, which   *)
(* is the JSON the bodies of this model are written in.  A string and the  *)
(* name of a member are the sequence of their characters.                  *)
(***************************************************************************)
Digits == {"0", "1", "2", "3", "4", "5", "6", "7", "8", "9"}

DigitVal(c) ==
  CASE c = "0" -> 0 [] c = "1" -> 1 [] c = "2" -> 2 [] c = "3" -> 3
    [] c = "4" -> 4 [] c = "5" -> 5 [] c = "6" -> 6 [] c = "7" -> 7
    [] c = "8" -> 8 [] c = "9" -> 9

NoParse == [ok |-> FALSE, val |-> PyNone, rest |-> <<>>]
Parsed(val, rest) == [ok |-> TRUE, val |-> val, rest |-> rest]

Drop(s, n) == SubSeq(s, n + 1, Len(s))

\* the digits at the front of s, read as a decimal number
RECURSIVE ScanInt(_, _)
ScanInt(s, acc) ==
  IF s # <<>> /\ Head(s) \in Digits
    THEN ScanInt(Tail(s), 10 * acc + DigitVal(Head(s)))
    ELSE Parsed(PyInt(acc), s)

\* the characters of a string literal up to its closing quote
RECURSIVE ScanString(_, _)
ScanString(s, acc) ==
  IF s = <<>> THEN NoParse
  ELSE IF Head(s) = "\"" THEN Parsed(PyStr(acc), Tail(s))
  ELSE ScanString(Tail(s), Append(acc, Head(s)))

\* d[name] = val on the items of a dict: a name that is there is rebound
SetItem(items, name, val) ==
  IF \E i \in 1 .. Len(items) : items[i][1] = name
    THEN [i \in 1 .. Len(items) |->
            IF items[i][1] = name THEN <<name, val>> ELSE items[i]]
    ELSE Append(items, <<name, val>>)

RECURSIVE ParseValue(_), ParseElements(_, _), ParseMembers(_, _)
ParseValue(s) ==
  IF s = <<>> THEN NoParse
  ELSE IF Head(s) \in Digits THEN
    \* JSON has no leading zeros: "0" is a number, "01" is not
    IF Head(s) = "0" THEN Parsed(PyInt(0), Tail(s)) ELSE ScanInt(s, 0)
  ELSE IF Head(s) = "\"" THEN ScanString(Tail(s), <<>>)
  ELSE IF Len(s) >= 4 /\ SubSeq(s, 1, 4) = <<"n", "u", "l", "l">>
    THEN Parsed(PyNone, Drop(s, 4))
  ELSE IF Head(s) = "[" THEN
    IF Len(s) >= 2 /\ s[2] = "]" THEN Parsed(PyList(<<>>), Drop(s, 2))
    ELSE ParseElements(Tail(s), <<>>)
  ELSE IF Head(s) = "{" THEN
    IF Len(s) >= 2 /\ s[2] = "}" THEN Parsed(PyDict(<<>>), Drop(s, 2))
    ELSE ParseMembers(Tail(s), <<>>)
  ELSE NoParse

\* the members "name":value of an object up to its closing brace
ParseMembers(s, acc) ==
  IF s = <<>> \/ Head(s) # "\"" THEN NoParse
  ELSE LET k == ScanString(Tail(s), <<>>) IN
    IF ~k.ok \/ k.rest = <<>> \/ Head(k.rest) # ":" THEN NoParse
    ELSE LET e == ParseValue(Tail(k.rest)) IN
      IF ~e.ok \/ e.rest = <<>> THEN NoParse
      ELSE IF Head(e.rest) = "}"
        THEN Parsed(PyDict(SetItem(acc, k.val.v, e.val)), Tail(e.rest))
      ELSE IF Head(e.rest) = ","
        THEN ParseMembers(Tail(e.rest), SetItem(acc, k.val.v, e.val))
      ELSE NoParse

ParseElements(s, acc) ==
  LET e == ParseValue(s) IN
    IF ~e.ok \/ e.rest = <<>> THEN NoParse
    ELSE IF Head(e.rest) = "]"
      THEN Parsed(PyList(Append(acc, e.val)), Tail(e.rest))
    ELSE IF Head(e.rest) = ","
      THEN ParseElements(Tail(e.rest), Append(acc, e.val))
    ELSE NoParse

\* json.loads(s): the value, or ok = FALSE where json.loads raises
\* (nothing parsed, or characters left over after the value)
JsonLoads(s) ==
  LET p == ParseValue(s) IN
    IF p.ok /\ p.rest = <<>> THEN p ELSE NoParse


(***************************************************************************)
(* Results of Deferreds and of the blocking call.  st is "pending" (not    *)
(* fired), "ok" (callback, with val) or "err" (errback, with the exception *)
(* class kind, NotOkayError's code and the message).                       *)
(***************************************************************************)
NoCode == 0

Pending == [st |-> "pending", kind |-> "", code |-> NoCode, msg |-> "", val |-> PyNone]
Success(val) == [st |-> "ok", kind |-> "", code |-> NoCode, msg |-> "", val |-> val]
Failure(kind, code, msg) ==
  [st |-> "err", kind |-> kind, code |-> code, msg |-> msg, val |-> PyNone]

\* HTTP 200, the only status either client accepts
HttpOk == 200
\* the status start() recovers from on /2/features
HttpNotFound == 404
\* the statuses the server answers with
StatusCodes == {200, 404, 500}

\* the RAPI version start() accepts
RapiVersion == 2

\* what the server does instead of answering
ConnectFailures == {"refused", "timeout"}

\* the paths of the endpoints that list instances, jobs, nodes and groups
ListPaths == {"/2/instances", "/2/jobs", "/2/nodes", "/2/groups"}

\* bodies the server sends for a list: nothing, [], two objects with id and
\* name in either order, an object without name, and JSON that is no list of
\* objects
ListBodies ==
  { <<>>,
    <<"[", "]">>,
    <<"[", "{", "\"", "i", "d", "\"", ":", "1", ",", "\"", "n", "a", "m", "e", "\"", ":", "\"", "g", "\"", "}", ",", "{", "\"", "i", "d", "\"", ":", "3", ",", "\"", "n", "a", "m", "e", "\"", ":", "\"", "h", "\"", "}", "]">>,
    <<"[", "{", "\"", "i", "d", "\"", ":", "3", ",", "\"", "n", "a", "m", "e", "\"", ":", "\"", "h", "\"", "}", ",", "{", "\"", "i", "d", "\"", ":", "1", ",", "\"", "n", "a", "m", "e", "\"", ":", "\"", "g", "\"", "}", "]">>,
    <<"[", "{", "\"", "i", "d", "\"", ":", "1", "}", "]">>,
    <<"[", "1", "]">>,
    <<"1">>,
    <<"{", "\"", "i", "d", "\"", ":", "1", "}">> }

\* response bodies the server sends, per path
Bodies(path) ==
  CASE path = "/version" ->
         { <<>>, <<"2">>, <<"1">>, <<"2", "2">>, <<"n", "u", "l", "l">>,
           <<"\"", "2", "\"">>, <<"2", "]">> }
    [] path = "/2/features" ->
         { <<>>, <<"[", "]">>, <<"[", "\"", "a", "\"", "]">>, <<"[", "2">> }
    [] path \in ListPaths -> ListBodies
    [] OTHER ->
         { <<>>, <<"1">>, <<"1", "2">>, <<"2", "1">>, <<"[", "]">>, <<"2", "]">> }

\* the paths the caller asks for; "version" lacks its leading slash
UserPaths == {"/2/info", "version"}

\* the characters of a path
PathChars(path) ==
  CASE path = "/version" -> <<"/", "v", "e", "r", "s", "i", "o", "n">>
    [] path = "/2/features" -> <<"/", "2", "/", "f", "e", "a", "t", "u", "r", "e", "s">>
    [] path = "/2/info" -> <<"/", "2", "/", "i", "n", "f", "o">>
    [] path = "version" -> <<"v", "e", "r", "s", "i", "o", "n">>
    [] path = "/2/instances" -> <<"/", "2", "/", "i", "n", "s", "t", "a", "n", "c", "e", "s">>
    [] path = "/2/jobs" -> <<"/", "2", "/", "j", "o", "b", "s">>
    [] path = "/2/nodes" -> <<"/", "2", "/", "n", "o", "d", "e", "s">>
    [] path = "/2/nodes/node1/evacuate" -> <<"/", "2", "/", "n", "o", "d", "e", "s", "/", "n", "o", "d", "e", "1", "/", "e", "v", "a", "c", "u", "a", "t", "e">>
    [] path = "/2/groups" -> <<"/", "2", "/", "g", "r", "o", "u", "p", "s">>
    [] OTHER -> <<>>

\* path.startswith("/")
StartsWithSlash(path) == PathChars(path) # <<>> /\ Head(PathChars(path)) = "/"

(***************************************************************************)
(* One exchange of the non-blocking client: the Agent's Deferred d         *)
(* (upstream), the JsonResponseProtocol (finished, buf) and the            *)
(* DeferredList getData() returns (finishedCount, called, handle).         *)
(***************************************************************************)
UserReq == 1 .. MaxUserReq
\* the exchange the start() generator is waiting on
StartReq == MaxUserReq + 1
Req == 1 .. (MaxUserReq + 1)

\* index of a Deferred in the list getData() hands to DeferredList
FinishedIdx == 0
UpstreamIdx == 1

Unused ==
  [ path |-> "", net |-> "unused", conn |-> "", status |-> NoCode, rest |-> <<>>,
    arrived |-> <<>>, delivered |-> FALSE, upstream |-> Pending, finished |-> Pending,
    buf |-> <<>>, finishedCount |-> 0, called |-> FALSE,
    handle |-> Pending, fired |-> 0, exchanges |-> 0, raised |-> Pending,
    applier |-> <<>>, applied |-> Pending, endpoint |-> "", bulk |-> FALSE ]

\* agent.request() is called, once, and JsonResponseProtocol.__init__
NewRequest(path) ==
  [Unused EXCEPT !.path = path, !.net = "connecting", !.exchanges = @ + 1]

\* the names a module can raise: what it imports from gentleman.errors
AsyncNames == {"ClientError", "GanetiApiError", "NotOkayError"}
SyncNames == {"GanetiApiError"}

\* raise cls(msg) in a module where names are bound: the exception, or the
\* NameError of a name the module never bound
Raise(names, cls, msg) ==
  IF cls \in names THEN Failure(cls, NoCode, msg)
  ELSE Failure("NameError", NoCode, cls)

\* request() raised exc before it returned a handle
RequestRaised(path, exc) ==
  [Unused EXCEPT !.path = path, !.net = "closed", !.raised = exc]

\* request(): not path.startswith("/") raises ClientError
PathChecked(path) == StartsWithSlash(path)

\* TwistedRapiClient.request(method, path) without a query
RequestCall(path) ==
  IF ~PathChecked(path)
    THEN RequestRaised(path, Raise(AsyncNames, "ClientError",
                                   "Implementation error: Called with bad path"))
    ELSE NewRequest(path)

\* "".join(self.buf)
RECURSIVE Join(_)
Join(chunks) == IF chunks = <<>> THEN <<>> ELSE Head(chunks) \o Join(Tail(chunks))

\* for x in l: the items a list comprehension visits, or ok = FALSE where
\* iter(l) raises TypeError
Iterate(l) ==
  IF l.t = "list" THEN [ok |-> TRUE, items |-> l.v]
  ELSE IF l.t = "dict"
    THEN [ok |-> TRUE, items |-> [i \in 1 .. Len(l.v) |-> PyStr(l.v[i][1])]]
  ELSE IF l.t = "str"
    THEN [ok |-> TRUE, items |-> [i \in 1 .. Len(l.v) |-> PyStr(<<l.v[i]>>)]]
  ELSE [ok |-> FALSE, items |-> <<>>]

\* itemgetter(key)(x): x[key] of a dict, KeyError where the dict has no such
\* key, TypeError for anything a string does not index
ItemGetter(key, x) ==
  IF x.t # "dict" THEN Failure("TypeError", NoCode, "")
  ELSE IF \E i \in 1 .. Len(x.v) : x.v[i][1] = key
    THEN Success(x.v[CHOOSE i \in 1 .. Len(x.v) : x.v[i][1] = key][2])
  ELSE Failure("KeyError", NoCode, "")

\* an itemgetters that returns the items last to first
ItemGettersBackwards(key, l) ==
  LET xs == Iterate(l).items
      n == Len(xs)
  IN  Success(PyList([i \in 1 .. n |-> ItemGetter(key, xs[n + 1 - i]).val]))

\* itemgetters(key)(l): [f(x) for x in l], or the exception of the first x
\* on which f raises
ItemGetters(key, l) ==
  LET it == Iterate(l)
      xs == it.items
      bad == {i \in 1 .. Len(xs) : ItemGetter(key, xs[i]).st = "err"}
  IN  IF ~it.ok THEN Failure("TypeError", NoCode, "")
      ELSE IF bad # {}
        THEN ItemGetter(key, xs[CHOOSE i \in bad : \A j \in bad : i <= j])
      ELSE Success(PyList([i \in 1 .. Len(xs) |-> ItemGetter(key, xs[i]).val]))

\* the callback applier() adds to the handle: it runs on a result, and a
\* failure passes it by
ApplierCb(key, out) ==
  IF key = <<>> \/ out.st # "ok" THEN out ELSE ItemGetters(key, out.val)

\* the handle's callback chain is started with out
Fire(q, out) ==
  [q EXCEPT !.called = TRUE, !.fired = @ + 1, !.handle = out,
            !.applied = ApplierCb(q.applier, out)]

\* getData.cb: l[0][1], the result of _finished
GetDataCb(q) == Success(q.finished.val)

\* getData.eb: fail.value.subFailure, the failure of the Deferred that failed
GetDataEb(sub) == sub

\* a DeferredList that goes on firing after it has fired
DeferredListFiresAgain(q, res) ==
  IF res.st = "err" THEN "errback"
  ELSE IF q.finishedCount = 2 THEN "callback"
  ELSE "no"

\* a DeferredList without fireOnOneErrback: it fires once both have fired
DeferredListWaitsForBoth(q, res) ==
  IF q.called THEN "no"
  ELSE IF q.finishedCount = 2 THEN "callback"
  ELSE "no"

\* DeferredList(..., fireOnOneErrback=True) is told that the Deferred at idx
\* fired with res: it fires GetDataEb on the first failure, GetDataCb once both
\* have succeeded, and nothing once it has fired
DeferredListFires(q, res) ==
  IF q.called THEN "no"
  ELSE IF res.st = "err" THEN "errback"
  ELSE IF q.finishedCount = 2 THEN "callback"
  ELSE "no"

DeferredListResult(q, idx, res) ==
  LET q1 == IF idx = FinishedIdx
              THEN [q EXCEPT !.finished = res, !.finishedCount = @ + 1]
              ELSE [q EXCEPT !.upstream = res, !.finishedCount = @ + 1]
      how == DeferredListFires(q1, res)
  IN  CASE how = "errback" -> Fire(q1, GetDataEb(res))
        [] how = "callback" -> Fire(q1, GetDataCb(q1))
        [] OTHER -> q1

\* a dataReceived that puts the newest chunk first
DataReceivedFirst(buf, data) == <<data>> \o buf

\* JsonResponseProtocol.dataReceived
DataReceivedBuf(buf, data) == Append(buf, data)

\* the transport hands the next n bytes of the body to the protocol
TransportDeliver(q, n) ==
  LET data == SubSeq(q.rest, 1, n)
  IN  [q EXCEPT !.rest = Drop(q.rest, n), !.arrived = @ \o data,
                !.buf = DataReceivedBuf(q.buf, data)]

\* JsonResponseProtocol.connectionLost: decode the whole buffer, fire _finished
ConnectionLostResult(q) ==
  LET p == JsonLoads(Join(q.buf))
      res == IF p.ok THEN Success(p.val)
             ELSE Failure("JSONDecodeError", NoCode, "")
  IN  DeferredListResult([q EXCEPT !.net = "closed"], FinishedIdx, res)

\* request.connectionFailed: trap ConnectionRefusedError, pass anything else on
ConnectionFailedResult(why) ==
  IF why = "refused"
    THEN Failure("GanetiApiError", NoCode, "Connection refused!")
    ELSE Failure("TimeoutError", NoCode, "")

\* a client that asks the agent again when it gets no connection
ConnectionFailedRetry(q, why) == [q EXCEPT !.exchanges = @ + 1]

\* the Agent's Deferred fails with why: the errback chain of request() runs,
\* the exchange is over
ConnectionFailedNext(q, why) ==
  DeferredListResult([q EXCEPT !.net = "closed", !.conn = why], UpstreamIdx,
                     ConnectionFailedResult(why))

\* a cb that takes 404 for an answer
CbRaisesServerError(code) == code # HttpOk /\ code # HttpNotFound

\* request.cb raises on a status other than 200
CbRaises(code) == code # HttpOk


\* request.cb on a response with status code and body.  deliverBody hands a
\* body that is already complete to the protocol at once (buffered), or
\* connects the protocol for the chunks to come.
CbResult(q, code, body, buffered) ==
  LET q0 == [q EXCEPT !.conn = "ok", !.status = code, !.rest = body]
  IN  IF CbRaises(code)
        THEN DeferredListResult([q0 EXCEPT !.net = "closed"], UpstreamIdx,
                                Failure("NotOkayError", code, ""))
        ELSE LET q1 == [q0 EXCEPT !.delivered = TRUE, !.net = "body"]
                 q2 == IF ~buffered THEN q1
                       ELSE IF body = <<>> THEN ConnectionLostResult(q1)
                       ELSE ConnectionLostResult(TransportDeliver(q1, Len(body)))
             IN  DeferredListResult(q2, UpstreamIdx, Success(PyNone))

(***************************************************************************)
(* TwistedRapiClient.start, an inlineCallbacks generator: it is resumed    *)
(* inside the callback chain of the handle it waits on.                    *)
(***************************************************************************)
\* a start() that takes any version
VersionAcceptedAny(v) == TRUE

\* version != 2 is false
VersionAccepted(v) == PyEq(v, PyInt(RapiVersion))

\* what "Can't work with Ganeti RAPI version %d" % version raises
VersionRejection(v) ==
  IF IsNumber(v)
    THEN Failure("GanetiApiError", NoCode, "Can't work with Ganeti RAPI version")
    ELSE Failure("TypeError", NoCode, "%d format: a number is required")

\* a start() that recovers from every NotOkayError
FeaturesRecoveredAnyCode(out) == out.kind = "NotOkayError"

\* a start() that recovers from no NotOkayError
FeaturesRecoveredNever(out) == FALSE

\* except NotOkayError, noe: if noe.code == 404
FeaturesRecovered(out) == out.kind = "NotOkayError" /\ out.code = HttpNotFound

\* a start() that forgets the list it was sent
StartFeaturesEmpty(out) == PyList(<<>>)

\* the value start() stores in self.features: what the request resolved to,
\* or [] after the 404 it recovers from
StartFeatures(out) == IF out.st = "ok" THEN out.val ELSE PyList(<<>>)

Idle ==
  [ pc |-> "idle", result |-> Pending, preVersion |-> PyNone,
    preFeatures |-> PyList(<<>>), vOut |-> Pending, fOut |-> Pending,
    vCalls |-> 0, fCalls |-> 0,
    lastDone |-> FALSE, lastV |-> Pending, lastF |-> Pending ]

\* a start() that empties self.features before it asks
FeaturesClearedAtEntry(f) == PyList(<<>>)

\* self.features while start() waits for /version: start() assigns nothing
\* before its first yield
FeaturesAtEntry(f) == f

\* the generator is resumed with the outcome of the /version request
ResumeVersion(q) ==
  LET out == q.handle
      r1 == [run EXCEPT !.vOut = out]
  IN  IF out.st = "err" THEN
        /\ run' = [r1 EXCEPT !.pc = "failed", !.result = out]
        /\ req' = [req EXCEPT ![StartReq] = q]
        /\ UNCHANGED <<version, features>>
      ELSE IF ~VersionAccepted(out.val) THEN
        /\ run' = [r1 EXCEPT !.pc = "failed", !.result = VersionRejection(out.val)]
        /\ req' = [req EXCEPT ![StartReq] = q]
        /\ UNCHANGED <<version, features>>
      ELSE
        /\ version' = out.val
        /\ run' = [r1 EXCEPT !.pc = "features", !.fCalls = @ + 1]
        /\ req' = [req EXCEPT ![StartReq] = RequestCall("/2/features")]
        /\ UNCHANGED features

\* the generator is resumed with the outcome of the /2/features request
ResumeFeatures(q) ==
  LET out == q.handle
      r1 == [run EXCEPT !.fOut = out]
  IN  /\ req' = [req EXCEPT ![StartReq] = q]
      /\ UNCHANGED version
      /\ IF out.st = "ok" \/ FeaturesRecovered(out) THEN
           /\ features' = StartFeatures(out)
           /\ run' = [r1 EXCEPT !.pc = "done", !.result = Success(PyNone)]
         ELSE
           /\ run' = [r1 EXCEPT !.pc = "failed", !.result = out]
           /\ UNCHANGED features

\* protocols that share one buf, a buf made a class attribute
StoreSharedBuf(rq, r, q) ==
  [s \in DOMAIN rq |-> IF s = r THEN q ELSE [rq[s] EXCEPT !.buf = q.buf]]

\* an event of exchange r changes the objects of exchange r: buf and the
\* Deferreds are attributes of the protocol instance request() creates
Store(rq, r, q) == [rq EXCEPT ![r] = q]

\* exchange r moves to q; a handle that fires resumes the generator waiting on it
Deliver(r, q) ==
  IF r = StartReq /\ q.fired > req[r].fired /\ run.pc = "version"
    THEN ResumeVersion(q)
  ELSE IF r = StartReq /\ q.fired > req[r].fired /\ run.pc = "features"
    THEN ResumeFeatures(q)
  ELSE /\ req' = Store(req, r, q)
       /\ UNCHANGED <<version, features, run>>

(***************************************************************************)
(* base.EvacuateNode(r, node, ...).  r is whatever client the caller       *)
(* passes: EvacuateNode calls r.GetFeatures() and r.request().             *)
(***************************************************************************)
\* the names gentleman/base.py imports from gentleman.errors
BaseNames == {"GanetiApiError"}

NODE_EVAC_SEC == PyStr(<<"secondary-only">>)
NODE_EVAC_ALL == PyStr(<<"all">>)

\* a value in a condition: None and "" are false
Truthy(x) == x.t # "NoneType" /\ x.v # <<>>

EvacArgs ==
  [ hasGetFeatures : BOOLEAN,   \* r defines GetFeatures: neither class of
                                \* gentleman.async and gentleman.sync does
    evacRes1 : BOOLEAN,         \* "node-evac-res1" in what GetFeatures returns
    iallocator : {PyNone, PyStr(<<>>), PyStr(<<"i">>)},
    remote_node : {PyNone, PyStr(<<"n">>)},
    dry_run : BOOLEAN,
    early_release : BOOLEAN,
    mode : {PyNone, NODE_EVAC_SEC, NODE_EVAC_ALL},
    accept_old : BOOLEAN ]

\* query[name] = val when cond holds
SetIf(cond, items, name, val) == IF cond THEN SetItem(items, name, val) ELSE items

\* the query dict before the test of the features: dry-run, and iallocator
\* and remote_node when they are true
EvacQuery(a) ==
  SetIf(Truthy(a.remote_node),
        SetIf(Truthy(a.iallocator), << <<"dry-run", PyBool(a.dry_run)>> >>,
              "iallocator", a.iallocator),
        "remote_node", a.remote_node)

\* the body of the 2.5 request format
EvacBody(a) ==
  PyDict(SetIf(a.mode # PyNone,
           SetIf(a.remote_node # PyNone,
             SetIf(a.iallocator # PyNone,
                   << <<"early_release", PyBool(a.early_release)>> >>,
                   "iallocator", a.iallocator),
             "remote_node", a.remote_node),
           "mode", a.mode))

\* the query dict of the pre-2.5 request format: iallocator and remote_node
\* when they are not None, and early_release under "if query", the test of
\* the dict itself
EvacOldQuery(a) ==
  LET q == SetIf(a.remote_node # PyNone,
                 SetIf(a.iallocator # PyNone, EvacQuery(a),
                       "iallocator", a.iallocator),
                 "remote_node", a.remote_node)
  IN  SetIf(q # <<>>, q, "early_release", PyInt(1))

\* EvacuateNode up to its call of r.request: what it raises, or the query and
\* the content it passes
EvacuateNodeCall(a) ==
  LET raises(out) == [raised |-> out, query |-> <<>>, body |-> PyNone]
  IN  IF Truthy(a.iallocator) /\ Truthy(a.remote_node)
        THEN raises(Raise(BaseNames, "GanetiApiError",
                          "Only one of iallocator or remote_node can be used"))
      ELSE IF ~a.hasGetFeatures
        THEN raises(Failure("AttributeError", NoCode, "GetFeatures"))
      ELSE IF a.evacRes1
        THEN [raised |-> Pending, query |-> EvacQuery(a), body |-> EvacBody(a)]
      ELSE IF ~a.accept_old
        THEN raises(Raise(BaseNames, "GanetiApiError",
                          "Server is version 2.4 or earlier"))
      ELSE IF a.mode # PyNone /\ a.mode # NODE_EVAC_SEC
        THEN raises(Raise(BaseNames, "GanetiApiError",
                          "Server can only evacuate secondary instances"))
      ELSE [raised |-> Pending, query |-> EvacOldQuery(a), body |-> PyNone]

NoCall ==
  [ name |-> "", args |-> <<>>, raised |-> Pending, sent |-> FALSE,
    query |-> <<>>, body |-> PyNone ]

(***************************************************************************)
(* The blocking client                                                     *)
(***************************************************************************)
NotSent ==
  [ path |-> "", conn |-> "", code |-> NoCode, body |-> <<>>, exchanges |-> 0,
    result |-> Pending ]

\* _SendRequest reaches requests.request() whatever the path is: it makes no
\* check of the path
SendRequestSends(path) == TRUE

\* RequestsRapiClient._SendRequest against a server that refuses, times out,
\* or answers with status code and body
SendRequestResult(conn, code, body) ==
  IF conn = "refused" THEN Failure("GanetiApiError", NoCode, "Couldn't connect")
  ELSE IF conn = "timeout" THEN Failure("GanetiApiError", NoCode, "Timed out connecting")
  \* GanetiApiError(str(r.status_code), code=r.status_code): GanetiApiError
  \* defines no __init__, and Exception takes no keyword arguments
  ELSE IF code # HttpOk THEN Failure("TypeError", NoCode, "takes no keyword arguments")
  ELSE IF body # <<>> THEN
    LET p == JsonLoads(body)
    IN  IF p.ok THEN Success(p.val) ELSE Failure("JSONDecodeError", NoCode, "")
  ELSE Success(PyNone)

(***************************************************************************)
(* Construction of a client                                                *)
(***************************************************************************)
Variants == {"TwistedRapiClient", "RequestsRapiClient"}
Hosts == {"example.org", "10.0.0.1", "::1"}
Ports == {5080, 443}
\* a username or a password: not given, empty, or given
Credentials == {PyNone, PyStr(<<>>), PyStr(<<"u">>)}

NoClient ==
  [ variant |-> "", host |-> "", port |-> 0, username |-> PyNone,
    password |-> PyNone, result |-> Pending, base_url |-> <<>> ]

\* the characters of a host
HostChars(host) ==
  CASE host = "example.org" -> <<"e", "x", "a", "m", "p", "l", "e", ".", "o", "r", "g">>
    [] host = "10.0.0.1" -> <<"1", "0", ".", "0", ".", "0", ".", "1">>
    [] host = "::1" -> <<":", ":", "1">>

\* "%s" and "%d" of a port
PortStr(port) == IF port = 443 THEN "443" ELSE "5080"

HexDigits == Digits \cup {"a", "b", "c", "d", "e", "f"}

\* socket.inet_pton(socket.AF_INET6, host) returns instead of raising: of the
\* hosts above, the one made of hexadecimal groups and colons
InetPton6(host) ==
  LET cs == HostChars(host)
  IN  /\ \A i \in 1 .. Len(cs) : cs[i] \in HexDigits \cup {":"}
      /\ \E i \in 1 .. Len(cs) : cs[i] = ":"

\* self._base_url as __init__ of either class formats it, piece by piece
BaseUrl(variant, host, port) ==
  IF variant = "RequestsRapiClient"
    THEN IF InetPton6(host)
           THEN <<"https://", "[", host, "]", ":", PortStr(port)>>
           ELSE <<"https://", host, ":", PortStr(port)>>
    ELSE <<"https://", host, ":", PortStr(port)>>

\* the names bound in the module of a client class
ModuleNames(variant) ==
  IF variant = "TwistedRapiClient" THEN AsyncNames ELSE SyncNames

\* x is not None, of a username or a password
Given(x) == ~PyEq(x, PyNone)

\* __init__ of either client: the check of the credentials, the same two
\* tests in both classes, each raising by the name ClientError
ClientInit(variant, username, password) ==
  IF Given(username) /\ ~Given(password)
    THEN Raise(ModuleNames(variant), "ClientError", "Password not specified")
  ELSE IF Given(password) /\ ~Given(username)
    THEN Raise(ModuleNames(variant), "ClientError",
               "Specified password without username")
  ELSE Success(PyNone)

(***************************************************************************)
(* helpers.prepare_query (sync.py carries a copy of it).  A query dict is  *)
(* the sequence of its <<name, value>> items in the order "for name in     *)
(* query" visits them.                                                     *)
(***************************************************************************)
KeyNames == {"a", "b", "c"}

QueryValues ==
  { PyNone, PyBool(TRUE), PyBool(FALSE), PyInt(1), PyStr(<<>>), PyStr(<<"x">>),
    PyFloat(15), PyList(<<PyInt(1)>>), PyList(<<PyNone>>),
    PyDict(<< <<"a", PyInt(1)>> >>) }

\* the dicts of at most MaxEntries items the caller passes
QueryDicts ==
  UNION { { e \in [1 .. n -> KeyNames \X QueryValues] :
              \A i, j \in 1 .. n : i # j => e[i][1] # e[j][1] } :
          n \in 0 .. MaxEntries }

\* an int(value) that is 1 for every bool
IntOfBoolOne(b) == 1

\* int(value) of a bool
IntOfBool(b) == IF b THEN 1 ELSE 0

\* a prepare_query that sends None as False
CoerceNoneToFalse(v) ==
  IF v.t = "NoneType" THEN PyBool(FALSE)
  ELSE IF v.t = "bool" THEN PyInt(IntOfBool(v.v))
  ELSE v

\* a prepare_query that leaves booleans alone
CoerceNoneOnly(v) == IF v.t = "NoneType" THEN PyStr(<<>>) ELSE v

\* what prepare_query stores for a value it accepts: "" for None, int(value)
\* for a bool, the value itself otherwise
CoerceValue(v) ==
  IF v.t = "NoneType" THEN PyStr(<<>>)
  ELSE IF v.t = "bool" THEN PyInt(IntOfBool(v.v))
  ELSE v

\* a prepare_query that rejects nothing
RejectedNever(v) == FALSE

\* isinstance(value, dict): prepare_query raises ValueError
Rejected(v) == v.t = "dict"

\* the loop of prepare_query from item i on: the dict as it leaves it, and
\* whether it returned (ok) or raised ValueError at a dict value; the items
\* before that one stay as the loop stored them.
RECURSIVE PrepareFrom(_, _)
PrepareFrom(entries, i) ==
  IF i > Len(entries) THEN [ok |-> TRUE, entries |-> entries]
  ELSE LET name == entries[i][1]
           value == entries[i][2]
       IN  IF Rejected(value) THEN [ok |-> FALSE, entries |-> entries]
           ELSE PrepareFrom([entries EXCEPT ![i] = <<name, CoerceValue(value)>>],
                            i + 1)

\* prepare_query(query)
PrepareQuery(entries) == PrepareFrom(entries, 1)

InvalidQuery == Failure("ValueError", NoCode, "Invalid query data type 'dict'")

\* the caller's dict: as given, as it is now, as it was when the last
\* prepare_query began, what that call did, and how many calls there were
QueryOf(e) ==
  [given |-> e, entries |-> e, before |-> e, result |-> Pending, calls |-> 0]

NoQuery == QueryOf(<<>>)

\* the dict after one more prepare_query
Prepared(qy) ==
  LET p == PrepareQuery(qy.entries)
  IN  [qy EXCEPT !.entries = p.entries, !.before = qy.entries,
                 !.result = IF p.ok THEN Success(PyNone) ELSE InvalidQuery,
                 !.calls = @ + 1]

\* TwistedRapiClient.request(method, path, query): the path is checked, then a
\* query that is not empty is prepared, then the agent is asked
RequestWithQuery(path, qy) ==
  IF ~PathChecked(path) \/ qy.entries = <<>>
    THEN [q |-> RequestCall(path), query |-> qy]
    ELSE LET qy1 == Prepared(qy)
         IN  IF qy1.result.st = "err"
               THEN [q |-> RequestRaised(path, qy1.result), query |-> qy1]
               ELSE [q |-> NewRequest(path), query |-> qy1]

(***************************************************************************)
(* Actions                                                                 *)
(***************************************************************************)
Init ==
  /\ call = NoCall
  /\ client = NoClient
  /\ query = NoQuery
  /\ req = [r \in Req |-> Unused]
  /\ version = PyNone
  /\ features = PyList(<<>>)
  /\ run = Idle
  /\ blocking = NotSent

\* the caller calls request(); a slot is free once its exchange is over
Request(r, path) ==
  /\ req[r].net \in {"unused", "closed"}
  /\ req' = [req EXCEPT ![r] = RequestCall(path)]
  /\ UNCHANGED <<version, features, run, blocking>>
  /\ UNCHANGED <<client, query, call>>

\* the Agent's Deferred fails: no connection
ConnectionFailed(r, why) ==
  /\ req[r].net = "connecting"
  /\ Deliver(r, ConnectionFailedNext(req[r], why))
  /\ UNCHANGED blocking
  /\ UNCHANGED <<client, query, call>>

\* the Agent's Deferred fires with the response: its headers have arrived
ResponseReceived(r, code, body, buffered) ==
  /\ req[r].net = "connecting"
  /\ Deliver(r, CbResult(req[r], code, body, buffered))
  /\ UNCHANGED blocking
  /\ UNCHANGED <<client, query, call>>

\* a chunk of the body arrives
DataReceived(r, n) ==
  /\ req[r].net = "body"
  /\ n \in 1 .. Len(req[r].rest)
  /\ Deliver(r, TransportDeliver(req[r], n))
  /\ UNCHANGED blocking
  /\ UNCHANGED <<client, query, call>>

\* the body is over (or the connection is lost before its end)
ConnectionLost(r) ==
  /\ req[r].net = "body"
  /\ Deliver(r, ConnectionLostResult(req[r]))
  /\ UNCHANGED blocking
  /\ UNCHANGED <<client, query, call>>

\* the caller calls start()
Start ==
  /\ run.pc \in {"idle", "done", "failed"}
  /\ run' = [Idle EXCEPT !.pc = "version", !.preVersion = version,
                         !.preFeatures = features, !.vCalls = @ + 1,
                         !.lastDone = run.pc = "done",
                         !.lastV = IF run.pc = "done" THEN run.vOut ELSE Pending,
                         !.lastF = IF run.pc = "done" THEN run.fOut ELSE Pending]
  /\ req' = [req EXCEPT ![StartReq] = RequestCall("/version")]
  /\ features' = FeaturesAtEntry(features)
  /\ UNCHANGED <<version, blocking>>
  /\ UNCHANGED <<client, query, call>>

\* the caller of the blocking client calls _SendRequest
SendRequest(path, conn, code, body) ==
  /\ SendRequestSends(path)
  /\ blocking' = [path |-> path, conn |-> conn, code |-> code, body |-> body,
                  exchanges |-> NotSent.exchanges + 1,
                  result |-> SendRequestResult(conn, code, body)]
  /\ UNCHANGED <<req, version, features, run>>
  /\ UNCHANGED <<client, query, call>>

Transport(r) ==
  \/ \E why \in ConnectFailures : ConnectionFailed(r, why)
  \/ \E code \in StatusCodes, body \in Bodies(req[r].path), buffered \in BOOLEAN :
       ResponseReceived(r, code, body, buffered)
  \/ \E n \in 1 .. 5 : DataReceived(r, n)
  \/ ConnectionLost(r)

\* the non-blocking transport, with the caller's requests in flight
Next ==
  \/ \E r \in UserReq, path \in UserPaths : Request(r, path)
  \/ \E r \in UserReq : Transport(r)

Spec == Init /\ [][Next]_vars

\* one request of the non-blocking client next to the blocking client
NextBlocking ==
  \/ \E path \in UserPaths : Request(1, path)
  \/ Transport(1)
  \/ \E path \in UserPaths, code \in StatusCodes :
       \E body \in Bodies(path) : SendRequest(path, "ok", code, body)
  \/ \E path \in UserPaths, why \in ConnectFailures :
       SendRequest(path, why, NoCode, <<>>)

SpecBlocking == Init /\ [][NextBlocking]_vars

\* the handshake of the non-blocking client
NextStart ==
  \/ Start
  \/ Transport(StartReq)

SpecStart == Init /\ [][NextStart]_vars


(***************************************************************************)
(* The handshake: properties of SpecStart                                  *)
(***************************************************************************)
FeatureListA == PyList(<<PyStr(<<"a">>)>>)
NotOkay(code) == Failure("NotOkayError", code, "")
VersionResolvedOk == run.vOut.st = "ok" /\ PyEq(run.vOut.val, PyInt(RapiVersion))

\* C1: when GET /version resolves to 2 and GET /2/features resolves to a list F,
\* start() completes without failure, client.version == 2 and client.features
\* is F.
C1_HandshakeSuccess ==
  (VersionResolvedOk /\ run.fOut.st = "ok" /\ run.fOut.val.t = "list")
    => /\ run.pc = "done"
       /\ run.result = Success(PyNone)
       /\ PyEq(version, PyInt(RapiVersion))
       /\ PyEq(features, run.fOut.val)

C1_Witness ==
  /\ run.pc = "done"
  /\ VersionResolvedOk
  /\ run.fOut = Success(FeatureListA)
  /\ PyEq(features, FeatureListA)

\* C2: when GET /version resolves to 2 and GET /2/features fails with
\* NotOkay(404), start() completes without a failure, client.version == 2 and
\* client.features is empty.
C2_LegacyServer ==
  (VersionResolvedOk /\ run.fOut = NotOkay(HttpNotFound))
    => /\ run.pc = "done"
       /\ run.result = Success(PyNone)
       /\ PyEq(version, PyInt(RapiVersion))
       /\ PyEq(features, PyList(<<>>))

C2_Witness ==
  /\ run.pc = "done"
  /\ run.fOut = NotOkay(HttpNotFound)
  /\ run.preFeatures = FeatureListA
  /\ PyEq(features, PyList(<<>>))

\* C3: for every value v != 2 that GET /version resolves to, start() fails with
\* the unsupported-version failure (GanetiApiError "Can't work with Ganeti RAPI
\* version") and client.version and client.features stay as they were.
C3_VersionRejected ==
  (run.vOut.st = "ok" /\ ~PyEq(run.vOut.val, PyInt(RapiVersion)))
    => /\ run.pc = "failed"
       /\ run.result.kind = "GanetiApiError"
       /\ run.result.msg = "Can't work with Ganeti RAPI version"
       /\ PyEq(version, run.preVersion)
       /\ PyEq(features, run.preFeatures)

\* C4: a failure of GET /2/features other than NotOkay(404) makes start() fail
\* with that same failure, and so does every failure of GET /version,
\* NotOkay(404) included, after which /2/features is not requested.
C4_OnlyFeatures404Recovered ==
  /\ (run.fOut.st = "err" /\ run.fOut # NotOkay(HttpNotFound))
       => (run.pc = "failed" /\ run.result = run.fOut)
  /\ run.vOut.st = "err"
       => (run.pc = "failed" /\ run.result = run.vOut /\ run.fOut = Pending)

C4_Witness ==
  /\ run.pc = "failed"
  /\ run.fOut.kind = "NotOkayError"
  /\ run.fOut.code # HttpNotFound
  /\ run.result = run.fOut

\* C5 as stated: a start() run that fails at any step leaves client.version and
\* client.features exactly as they were before the run.
C5_FailedRunChangesNothing ==
  run.pc = "failed"
    => (PyEq(version, run.preVersion) /\ PyEq(features, run.preFeatures))

\* C5 amended: a start() run that fails leaves client.features as it was; it
\* leaves client.version as it was when it fails before /2/features is
\* requested, and has stored version 2 when it fails on the /2/features request.
C5_FailedRunKeepsFeatures ==
  run.pc = "failed"
    => /\ PyEq(features, run.preFeatures)
       /\ run.fOut = Pending => PyEq(version, run.preVersion)
       /\ run.fOut # Pending => PyEq(version, PyInt(RapiVersion))

C5_Witness ==
  /\ run.pc = "failed"
  /\ run.fOut.st = "err"
  /\ PyEq(run.preVersion, PyNone)
  /\ PyEq(version, PyInt(RapiVersion))

\* C6: over any sequence of start() runs, once client.version is set it is
\* never reset to None and never changed to another value.
C6_VersionSetOnce ==
  [][~PyEq(version, PyNone) => PyEq(version', version)]_vars

C6_Witness ==
  /\ run.pc = "failed"
  /\ PyEq(run.preVersion, PyInt(RapiVersion))
  /\ run.vOut = Success(PyInt(1))
  /\ PyEq(version, PyInt(RapiVersion))

(***************************************************************************)
(* The non-blocking transport: properties of Spec                          *)
(***************************************************************************)
DecodeFailure == Failure("JSONDecodeError", NoCode, "")

\* what json.loads makes of the bytes that arrived
Decoded(bytes) ==
  LET p == JsonLoads(bytes) IN IF p.ok THEN Success(p.val) ELSE DecodeFailure

\* C7: the handle request() returns fires at most once, whatever the order of
\* the transport's events.
C7_FiresAtMostOnce == \A r \in Req : req[r].fired <= 1

\* both Deferreds have fired, the first with a failure
C7_Witness ==
  \E r \in UserReq :
    /\ req[r].finishedCount = 2
    /\ req[r].finished.st = "err"
    /\ req[r].upstream.st = "ok"
    /\ req[r].fired = 1

\* C8: when the response has a status other than 200 the handle resolves with
\* NotOkayError carrying that status, and the body is not delivered to the
\* protocol, accumulated or decoded.
C8_NotOkayWithoutBody ==
  \A r \in Req :
    (req[r].conn = "ok" /\ req[r].status # HttpOk)
      => /\ req[r].handle = NotOkay(req[r].status)
         /\ req[r].fired = 1
         /\ ~req[r].delivered
         /\ req[r].buf = <<>>
         /\ req[r].arrived = <<>>
         /\ req[r].finished = Pending

C8_Witness ==
  \E r \in UserReq :
    /\ req[r].status = HttpNotFound
    /\ req[r].rest # <<>>
    /\ req[r].handle = NotOkay(HttpNotFound)

\* C9: for a 200 response the handle does not resolve before the stream is
\* over, and then resolves with json.loads of the chunks joined in the order
\* they arrived (or its failure); the buffer is those chunks at every moment.
C9_DecodesWholeBody ==
  \A r \in Req :
    (req[r].conn = "ok" /\ req[r].status = HttpOk)
      => /\ Join(req[r].buf) = req[r].arrived
         /\ req[r].net # "closed" => (req[r].handle = Pending /\ req[r].fired = 0)
         /\ req[r].net = "closed" => req[r].handle = Decoded(req[r].arrived)

C9_Witness ==
  \E r \in UserReq :
    /\ req[r].net = "closed"
    /\ req[r].buf = << <<"1">>, <<"2">> >>
    /\ req[r].handle = Success(PyInt(12))

(***************************************************************************)
(* The two clients side by side: properties of SpecBlocking                *)
(***************************************************************************)
\* the blocking client met the server behaviour exchange q met: the same
\* refusal, or the same status and, for a 200, the same complete body
SameServer(q, b) ==
  /\ q.conn \in {"ok", "refused"}
  /\ q.conn = b.conn
  /\ q.conn = "ok" =>
       /\ q.status = b.code
       /\ q.status = HttpOk => (q.net = "closed" /\ q.rest = <<>> /\ q.arrived = b.body)

\* the same decoded value, or the same class of failure with the same code
SameOutcome(a, b) ==
  /\ a.st = b.st
  /\ a.st = "ok" => PyEq(a.val, b.val)
  /\ a.st = "err" => (a.kind = b.kind /\ a.code = b.code)

\* C10: for the same server behaviour (status, body bytes, empty body,
\* connection refused) the blocking and the non-blocking client produce the
\* same outcome.
C10_SameContract ==
  (req[1].fired = 1 /\ blocking.result # Pending /\ SameServer(req[1], blocking))
    => SameOutcome(req[1].handle, blocking.result)

\* C11: a 200 response with an empty body is "no content": the request succeeds
\* with None and does not fail, in the blocking and in the non-blocking client.
C11_EmptyBodyIsNoContent ==
  /\ (req[1].conn = "ok" /\ req[1].status = HttpOk /\ req[1].net = "closed"
        /\ req[1].arrived = <<>>)
       => req[1].handle = Success(PyNone)
  /\ (blocking.conn = "ok" /\ blocking.code = HttpOk /\ blocking.body = <<>>)
       => blocking.result = Success(PyNone)

\* C12: in every client a request whose path does not start with "/" fails with
\* ClientError and no HTTP exchange is issued for it.
C12_PathValidated ==
  /\ (req[1].path # "" /\ ~StartsWithSlash(req[1].path))
       => (req[1].raised.kind = "ClientError" /\ req[1].exchanges = 0)
  /\ (blocking.result # Pending /\ ~StartsWithSlash(blocking.path))
       => (blocking.result.kind = "ClientError" /\ blocking.exchanges = 0)

(***************************************************************************)
(* Construction: the caller constructs a client of either class            *)
(***************************************************************************)
Construct(variant, host, port, username, password) ==
  /\ client' = [ variant |-> variant, host |-> host, port |-> port,
                 username |-> username, password |-> password,
                 result |-> ClientInit(variant, username, password),
                 base_url |->
                   IF ClientInit(variant, username, password).st = "ok"
                     THEN BaseUrl(variant, host, port)
                     ELSE <<>> ]
  /\ UNCHANGED <<req, version, features, run, blocking, query, call>>

NextClient ==
  \E variant \in Variants, host \in Hosts, port \in Ports,
     username \in Credentials, password \in Credentials :
       Construct(variant, host, port, username, password)

SpecClient == Init /\ [][NextClient]_vars

\* exactly one of username and password is given
OneCredential(c) == Given(c.username) # Given(c.password)

\* C13: constructing a client of either class with a username and no password,
\* or a password and no username, fails with ClientError, so that no
\* constructed client has exactly one of the two.
C13_CredentialsChecked ==
  /\ (client.variant # "" /\ OneCredential(client))
       => client.result.kind = "ClientError"
  /\ client.result.st = "ok" => ~OneCredential(client)

\* C14: in the blocking client every response with a status other than 200
\* makes the request fail with a RAPI failure (GanetiApiError or its subclass
\* NotOkayError) that carries that status as its code.
C14_BlockingNotOkay ==
  (blocking.conn = "ok" /\ blocking.code # HttpOk)
    => /\ blocking.result.st = "err"
       /\ blocking.result.kind \in {"GanetiApiError", "NotOkayError"}
       /\ blocking.result.code = blocking.code

(***************************************************************************)
(* The handshake next to the blocking client                               *)
(***************************************************************************)
NextStartBlocking ==
  \/ Start
  \/ Transport(StartReq)
  \/ \E code \in StatusCodes, body \in Bodies("/2/info") :
       SendRequest("/2/info", "ok", code, body)
  \/ \E why \in ConnectFailures : SendRequest("/2/info", why, NoCode, <<>>)

SpecStartBlocking == Init /\ [][NextStartBlocking]_vars

\* C15: no retry: a request() call issues at most one HTTP exchange whatever
\* its outcome, in either client, and a start() run makes at most one request
\* for /version and at most one for /2/features.
C15_NoRetry ==
  /\ \A r \in Req : req[r].exchanges <= 1
  /\ blocking.exchanges <= 1
  /\ run.vCalls <= 1
  /\ run.fCalls <= 1

\* a run that failed on /2/features and a blocking call that failed
C15_Witness ==
  /\ run.pc = "failed"
  /\ run.fOut.st = "err"
  /\ run.vCalls = 1
  /\ run.fCalls = 1
  /\ req[StartReq].net = "closed"
  /\ req[StartReq].exchanges = 1
  /\ blocking.result.st = "err"
  /\ blocking.exchanges = 1

(***************************************************************************)
(* Requests in flight together: properties of Spec                         *)
(***************************************************************************)
\* what the events of exchange q alone make of its handle
OwnOutcome(q) ==
  IF q.conn = "refused" THEN Failure("GanetiApiError", NoCode, "Connection refused!")
  ELSE IF q.conn = "timeout" THEN Failure("TimeoutError", NoCode, "")
  ELSE IF q.conn = "ok" /\ q.status # HttpOk THEN NotOkay(q.status)
  ELSE IF q.conn = "ok" /\ q.net = "closed" THEN Decoded(q.arrived)
  ELSE Pending

\* C16: with several requests in flight and their events interleaved in any
\* order, each handle's result is what its own status and its own chunks make
\* it, whatever happens to the others, and its buffer holds its own chunks only.
C16_Isolation ==
  \A r \in Req :
    /\ req[r].handle = OwnOutcome(req[r])
    /\ Join(req[r].buf) = req[r].arrived

\* one request failed to decode its two chunks, another decoded its own two
C16_Witness ==
  \E r, s \in UserReq :
    /\ r # s
    /\ req[r].buf = << <<"2">>, <<"]">> >>
    /\ req[r].handle = DecodeFailure
    /\ req[s].buf = << <<"1">>, <<"2">> >>
    /\ req[s].handle = Success(PyInt(12))

(***************************************************************************)
(* Queries: the caller prepares a dict, or passes it to request()          *)
(***************************************************************************)
InitQuery ==
  /\ call = NoCall
  /\ req = [r \in Req |-> Unused]
  /\ version = PyNone
  /\ features = PyList(<<>>)
  /\ run = Idle
  /\ blocking = NotSent
  /\ client = NoClient
  /\ query \in {QueryOf(e) : e \in QueryDicts}

\* the caller calls prepare_query(query)
PrepareQueryCall ==
  /\ query.calls < MaxCalls
  /\ query' = Prepared(query)
  /\ UNCHANGED <<req, version, features, run, blocking, client, call>>

\* the caller calls request("get", path, query)
RequestQuery(path) ==
  /\ query.calls < MaxCalls
  /\ req[1].net \in {"unused", "closed"}
  /\ req' = [req EXCEPT ![1] = RequestWithQuery(path, query).q]
  /\ query' = RequestWithQuery(path, query).query
  /\ UNCHANGED <<version, features, run, blocking, client, call>>

NextQuery ==
  \/ PrepareQueryCall
  \/ \E path \in UserPaths : RequestQuery(path)

SpecQuery == InitQuery /\ [][NextQuery]_vars

Values(entries) == {entries[i][2] : i \in 1 .. Len(entries)}
HasDict(entries) == \E v \in Values(entries) : v.t = "dict"

\* C17: when prepare_query has succeeded on a mapping, applying it again
\* leaves the mapping equal to the result of the first application.
C17_Idempotent ==
  [][(query.result.st = "ok" /\ query'.calls = query.calls + 1)
       => (query'.result.st = "ok" /\ query'.entries = query.entries)]_vars

\* the second call, on a dict whose None and True the first call coerced
C17_Witness ==
  /\ query.calls = 2
  /\ query.result.st = "ok"
  /\ Values(query.given) = {PyNone, PyBool(TRUE)}
  /\ query.entries = query.before

Names(entries) == [i \in 1 .. Len(entries) |-> entries[i][1]]

\* C18: after prepare_query succeeds the mapping has the keys it had, a value
\* that was True or False is the integer 1 or 0 (an int, not a bool), a value
\* that was None is the empty string, and every other value is unchanged.
C18_PerEntry ==
  query.result.st = "ok" =>
    /\ Names(query.entries) = Names(query.before)
    /\ \A i \in 1 .. Len(query.before) :
         LET old == query.before[i][2]
             new == query.entries[i][2]
         IN  /\ old = PyBool(TRUE) => new = [t |-> "int", v |-> 1]
             /\ old = PyBool(FALSE) => new = [t |-> "int", v |-> 0]
             /\ old = PyNone => new = [t |-> "str", v |-> <<>>]
             /\ old.t \notin {"bool", "NoneType"} => new = old

\* the first call succeeded on a dict holding False and a float
C18_Witness ==
  /\ query.calls = 1
  /\ query.result.st = "ok"
  /\ Values(query.before) = {PyBool(FALSE), PyFloat(15)}
  /\ Values(query.entries) = {PyInt(0), PyFloat(15)}

\* C19: prepare_query on a mapping with a value that is itself a mapping
\* raises ValueError, and request() given such a query raises it without any
\* HTTP exchange.
C19_NestedMappingRejected ==
  /\ (query.calls > 0 /\ HasDict(query.given)) => query.result = InvalidQuery
  /\ (req[1].path # "" /\ StartsWithSlash(req[1].path) /\ HasDict(query.given))
       => /\ req[1].raised = InvalidQuery
          /\ req[1].exchanges = 0
          /\ req[1].net = "closed"

\* request() was given {name: None, other: {...}} and raised at the dict
C19_Witness ==
  /\ Len(query.given) = 2
  /\ query.given[1][2] = PyNone
  /\ query.given[2][2].t = "dict"
  /\ query.calls = 1
  /\ req[1].path = "/2/info"
  /\ req[1].raised = InvalidQuery
  /\ req[1].exchanges = 0

\* every value of the dict is a string, an integer or a list of scalars
Scalar(v) == v.t \in {"str", "int", "float"}
StringIntOrScalarList(v) ==
  \/ v.t \in {"str", "int"}
  \/ v.t = "list" /\ \A k \in 1 .. Len(v.v) : Scalar(v.v[k])

\* C20 as stated: after prepare_query succeeds every value is a string, an
\* integer or a list of scalars, and none is a mapping, a bool or None.
C20_OnlyStringIntScalarList ==
  query.result.st = "ok" =>
    \A v \in Values(query.entries) :
      StringIntOrScalarList(v) /\ v.t \notin {"dict", "bool", "NoneType"}

\* C20: after prepare_query succeeds no value of the mapping is a mapping, a
\* bool or None; a float or a list, whatever it holds, is the value given.
C20_NoMappingBoolNone ==
  query.result.st = "ok" =>
    /\ \A v \in Values(query.entries) : v.t \notin {"dict", "bool", "NoneType"}
    /\ \A i \in 1 .. Len(query.before) :
         query.before[i][2].t \in {"float", "list"}
           => query.entries[i][2] = query.before[i][2]

\* the call succeeded on a dict holding True and the list [None]
C20_Witness ==
  /\ query.calls = 1
  /\ query.result.st = "ok"
  /\ Values(query.before) = {PyBool(TRUE), PyList(<<PyNone>>)}
  /\ Values(query.entries) = {PyInt(1), PyList(<<PyNone>>)}

\* the hosts that are IPv6 literals
IPv6Literals == {"::1"}

\* C21: in both clients the base URL is https://<host>:<port>, the host in
\* square brackets exactly when it is an IPv6 literal.
C21_BaseUrl ==
  client.result.st = "ok" =>
    client.base_url =
      IF client.host \in IPv6Literals
        THEN <<"https://", "[", client.host, "]", ":", PortStr(client.port)>>
        ELSE <<"https://", client.host, ":", PortStr(client.port)>>

(***************************************************************************)
(* The list endpoints of gentleman/base.py on the non-blocking client      *)
(***************************************************************************)
ListEndpoints == {"GetInstances", "GetJobs", "GetNodes", "GetGroups"}

EndpointPath(e) ==
  CASE e = "GetInstances" -> "/2/instances"
    [] e = "GetJobs" -> "/2/jobs"
    [] e = "GetNodes" -> "/2/nodes"
    [] e = "GetGroups" -> "/2/groups"

\* the argument of itemgetters(): "name" in GetGroups, "id" in the others
EndpointKey(e) ==
  IF e = "GetGroups" THEN <<"n", "a", "m", "e">> ELSE <<"i", "d">>

\* the values of bulk an endpoint takes: GetJobs has no such parameter
BulkArgs(e) == IF e = "GetJobs" THEN {FALSE} ELSE BOOLEAN

\* the sizes of the chunks a list arrives in, next to "all that is left"
ChunkSizes == {8}

\* GetInstances, GetJobs, GetNodes, GetGroups: with bulk the request carries
\* query={"bulk": 1} and its handle is returned; without, applier() adds
\* itemgetters(key) to the handle of the plain request
EndpointCall(e, bulk) ==
  IF bulk
    THEN [RequestWithQuery(EndpointPath(e),
                           QueryOf(<< <<"bulk", PyInt(1)>> >>)).q
            EXCEPT !.endpoint = e, !.bulk = bulk]
    ELSE [RequestCall(EndpointPath(e))
            EXCEPT !.endpoint = e, !.bulk = bulk, !.applier = EndpointKey(e)]

\* the caller calls a list endpoint with the non-blocking client
GetList(e, bulk) ==
  /\ req[1].net \in {"unused", "closed"}
  /\ req' = [req EXCEPT ![1] = EndpointCall(e, bulk)]
  /\ UNCHANGED <<version, features, run, blocking, client, query, call>>

NextList ==
  \/ \E e \in ListEndpoints : \E bulk \in BulkArgs(e) : GetList(e, bulk)
  \/ \E why \in ConnectFailures : ConnectionFailed(1, why)
  \/ \E code \in StatusCodes, body \in Bodies(req[1].path), buffered \in BOOLEAN :
       ResponseReceived(1, code, body, buffered)
  \/ \E n \in ChunkSizes \cup {Len(req[1].rest)} : DataReceived(1, n)
  \/ ConnectionLost(1)

SpecList == Init /\ [][NextList]_vars

\* the field a non-bulk endpoint projects the server's list to
ProjectedField(e) == IF e = "GetGroups" THEN "name" ELSE "id"
FieldChars(f) == IF f = "name" THEN <<"n", "a", "m", "e">> ELSE <<"i", "d">>

\* x is an object with a member k
HasMember(x, k) == x.t = "dict" /\ \E i \in 1 .. Len(x.v) : x.v[i][1] = k
\* x[k] of such an object
Member(x, k) == (CHOOSE it \in {x.v[i] : i \in 1 .. Len(x.v)} : it[1] = k)[2]

\* C22: itemgetters(k) applied to a list l of objects returns the list of
\* x[k] for each x in l, of the same length and in the same order, and a list
\* endpoint called without bulk resolves to this projection of the list the
\* server sent.
C22_Projection ==
  LET q == req[1]
      k == FieldChars(ProjectedField(q.endpoint))
      l == q.handle.val
  IN  ( /\ q.endpoint \in ListEndpoints
        /\ ~q.bulk
        /\ q.handle.st = "ok"
        /\ l.t = "list"
        /\ \A i \in 1 .. Len(l.v) : HasMember(l.v[i], k) )
        => /\ q.applied.st = "ok"
           /\ q.applied.val.t = "list"
           /\ Len(q.applied.val.v) = Len(l.v)
           /\ \A i \in 1 .. Len(l.v) : q.applied.val.v[i] = Member(l.v[i], k)

\* GetGroups resolved to ["h", "g"] for the groups h and g the server listed
C22_Witness ==
  /\ req[1].endpoint = "GetGroups"
  /\ ~req[1].bulk
  /\ req[1].handle.st = "ok"
  /\ req[1].handle.val.t = "list"
  /\ Len(req[1].handle.val.v) = 2
  /\ req[1].applied.st = "ok"
  /\ req[1].applied.val = PyList(<<PyStr(<<"h">>), PyStr(<<"g">>)>>)

\* what the server has answered in this run of start() is what it answered
\* in the run before, which completed
ServerUnchanged ==
  /\ run.lastDone
  /\ run.vOut.st # "pending" => run.vOut = run.lastV
  /\ run.fOut.st # "pending" => run.fOut = run.lastF

\* C23: when start() runs again after a run that succeeded and the server
\* answers /version and /2/features as before, client.version and
\* client.features keep the values the first run left, during the second run
\* and after it, and the second run does not fail.
C23_RestartIdempotent ==
  ServerUnchanged
    => /\ version = run.preVersion
       /\ features = run.preFeatures
       /\ PyEq(version, PyInt(RapiVersion))
       /\ run.pc # "failed"

\* the second run has completed on the feature list the first run was sent
C23_Witness ==
  /\ ServerUnchanged
  /\ run.pc = "done"
  /\ run.fOut = Success(FeatureListA)
  /\ run.lastF = Success(FeatureListA)
  /\ PyEq(features, FeatureListA)

(***************************************************************************)
(* The non-blocking transport under a transport that goes on reporting     *)
(***************************************************************************)
\* the transport of every exchange in flight eventually reports its next
\* event: no connection, the response, a chunk, or the end of the body
LivePaths == UserPaths \cup {"/version", "/2/features"}

NextLive ==
  \/ \E path \in LivePaths : Request(1, path)
  \/ Transport(1)

SpecLive == Init /\ [][NextLive]_vars /\ WF_vars(Transport(1))

\* C24: every handle request() returned eventually fires, given that the
\* transport eventually reports a connection failure, or the response and,
\* for status 200, the end of the body; a response with another status
\* fires the handle in the step that reports it, before any body event.
C24_HandleFires ==
  /\ (req[1].net = "connecting")
       ~> (req[1].fired = 1 /\ req[1].handle.st # "pending")
  /\ [][(req[1].net = "connecting" /\ req'[1].conn = "ok"
          /\ req'[1].status # HttpOk)
         => /\ req'[1].fired = 1
            /\ req'[1].handle = Failure("NotOkayError", req'[1].status, "")
            /\ ~req'[1].delivered
            /\ req'[1].buf = <<>>]_vars

\* a handle fired on a 200 response once its body, come in two chunks, had
\* ended
C24_Witness ==
  /\ req[1].status = HttpOk
  /\ req[1].net = "closed"
  /\ Len(req[1].buf) = 2
  /\ req[1].fired = 1
  /\ req[1].handle.st = "ok"

(***************************************************************************)
(* EvacuateNode on a client with a request() like TwistedRapiClient's      *)
(***************************************************************************)
EvacPath == "/2/nodes/node1/evacuate"

\* the caller calls EvacuateNode(r, "node1", ...): the query request() is given
\* is the dict request() has prepared
EvacuateNode(a) ==
  LET c == EvacuateNodeCall(a)
      rq == RequestWithQuery(EvacPath, QueryOf(c.query))
  IN  /\ req[1].net \in {"unused", "closed"}
      /\ IF c.raised.st = "err"
           THEN /\ call' = [NoCall EXCEPT !.name = "EvacuateNode", !.args = a,
                                          !.raised = c.raised]
                /\ UNCHANGED req
           ELSE /\ call' = [NoCall EXCEPT !.name = "EvacuateNode", !.args = a,
                                          !.raised = rq.q.raised, !.sent = TRUE,
                                          !.query = rq.query.entries,
                                          !.body = c.body]
                /\ req' = [req EXCEPT ![1] = rq.q]
      /\ UNCHANGED <<version, features, run, blocking, client, query>>

NextEvac ==
  \/ \E a \in EvacArgs : EvacuateNode(a)
  \/ \E why \in ConnectFailures : ConnectionFailed(1, why)

SpecEvac == Init /\ [][NextEvac]_vars

HasName(items, name) == \E i \in 1 .. Len(items) : items[i][1] = name

\* C25: in the pre-2.5 request format (node-evac-res1 absent, accept_old set)
\* EvacuateNode puts early_release=1 into the query only when the caller
\* passed early_release as true; with early_release false the query has no
\* early_release.
C25_EarlyReleaseOnlyWhenAsked ==
  (call.sent /\ ~call.args.evacRes1 /\ call.args.accept_old)
    => /\ HasName(call.query, "early_release") <=> call.args.early_release
       /\ \A i \in 1 .. Len(call.query) :
            call.query[i][1] = "early_release" => call.query[i][2] = PyInt(1)

\* C26: when prepare_query raises on a value that is a mapping, the mapping it
\* was given is as it was before the call: no None and no bool has been
\* coerced, whatever the order the entries are visited in.
C26_FailureLeavesMapping ==
  query.result = InvalidQuery => query.entries = query.before

====
